---- MODULE Spec2Model ----
(***************************************************************************)
(* MuseOS content-generation pipeline (src/api/index.ts).                  *)
(*                                                                         *)
(*   Spec        one run of executeWorkflowCore: profile lookup, query     *)
(*               building, the bounded fetch / dedup / evaluate / generate *)
(*               loop and the WorkflowResult it returns.                   *)
(*   SpecScorer  evaluatePostEngagement as a pure function of its input    *)
(*               list and of the language model's reply.                   *)
(*   SpecCron    a sequence of GET /api/cron invocations over the          *)
(*               schedules and schedule_executions tables.                 *)
(*                                                                         *)
(* Texts are modelled by their lengths and their dedup keys, candidate     *)
(* posts by entries of a small catalogue of vendor payloads.               *)
(***************************************************************************)
EXTENDS Integers, Sequences, FiniteSets, Bags, TLC

VARIABLES
    \* ---- executeWorkflowCore: inputs and environment
    count,              \* the `count` argument: [num |-> BOOLEAN, val |-> Int]
    source,             \* "keywords" | "creators"
    openaiOn,           \* the module-level `openai` client is not null
    tableProfiles,      \* TABLE_PROFILES env var is set
    profilesTable,      \* rows of the profiles table
    creatorsTable,      \* rows of the creators table
    \* ---- executeWorkflowCore: locals
    pc,                 \* position in the function
    profile,            \* the profile row in use (NoProfile before the lookup)
    nQueries,           \* searchQueries.length || creatorUrls.length
    round,              \* the loop counter
    postsPerQuery,      \* the fetch size of the current round
    savedResults,       \* savedResults
    processedPostIds,   \* the Set of dedup keys seen in this run
    newPosts,           \* the round's posts after dedup
    bestPosts,          \* the round's scorer result
    tasks,              \* the round's Promise.allSettled tasks
    result,             \* the WorkflowResult returned (NoResult until then)
    \* ---- executeWorkflowCore: history of the run
    fetchLog,           \* what the Source Adapter returned, one entry per round fetched
    attempts,           \* per candidate post: generate chains started for it
    aiGenerated,        \* some extractPostStructure or regeneratePost model call succeeded
    postsTable,         \* the rows this run inserted into the posts table (a bag)
    stopReason,         \* why the loop ended
    httpStatus,         \* executeWorkflowGenerate's response status (0: none yet)
    \* ---- evaluatePostEngagement as a pure function
    scPosts, scReply, scOpenai, scOut, scPc,
    \* ---- GET /api/cron
    clock,              \* wall-clock time, in ticks
    schedules,          \* the schedules table: schedule id -> row
    executions,         \* the schedule_executions table, in insertion order
    cron,               \* the cron invocation in progress
    workflowRuns,       \* executeWorkflowCore calls made by cron: <<schedule, now>>
    CRON_SECRET,        \* process.env.CRON_SECRET ("" when it is not set)
    \* ---- extractPostText / getMetric as pure functions
    nmCall,             \* "text" | "likes" | "comments" | "shares"
    nmPost,             \* the payload: field name -> value
    nmOut,              \* what the call returned
    nmPc,
    \* ---- the posts table under PATCH /posts/:id
    postRows,           \* the rows, by id: [status]
    patch,              \* the last PATCH request and its answer
    \* ---- the in-process scheduler (node-cron) and its two routes
    scheduleRow,        \* the user's row of the schedules table (NoScheduleRow: none)
    activeJobs,         \* the activeJobs Map: jobId -> the cron task scheduled
    scheduleHttp        \* the status of the last response (0: no request yet)

wfVars == <<count, source, openaiOn, tableProfiles, profilesTable, creatorsTable,
            pc, profile, nQueries, round, postsPerQuery, savedResults,
            processedPostIds, newPosts, bestPosts, tasks, result,
            fetchLog, attempts, aiGenerated, postsTable, stopReason, httpStatus>>
scVars == <<scPosts, scReply, scOpenai, scOut, scPc>>
cronVars == <<clock, schedules, executions, cron, workflowRuns, CRON_SECRET>>
nmVars == <<nmCall, nmPost, nmOut, nmPc>>
ptVars == <<postRows, patch>>
jobVars == <<scheduleRow, activeJobs, scheduleHttp>>
auxVars == <<nmVars, ptVars, jobVars>>
vars == <<wfVars, scVars, cronVars, auxVars>>

Min(a, b) == IF a <= b THEN a ELSE b
Max(a, b) == IF a >= b THEN a ELSE b

\* All sequences over S of length at most n.
SeqsUpTo(S, n) == UNION {[1..k -> S] : k \in 0..n}

(***************************************************************************)
(* Bounds of the model.                                                    *)
(***************************************************************************)
MaxFetch == 2          \* posts one round's fetch returns, at most
MaxCount == 2          \* largest in-range `count` tried (besides one above the cap)
MaxScorerIn == 2       \* input length tried for the scorer alone

(***************************************************************************)
(* Candidate posts: vendor payloads (ApifyPost).  `id` and `url` are "" when*)
(* the payload has no such field; textLen is the length of the trimmed     *)
(* text, cleanLen the length left by filterSensitiveData, textKey the      *)
(* first 50 characters of the text.                                        *)
(***************************************************************************)
Catalogue ==
    <<  [id |-> "a", url |-> "u1", textKey |-> "tA", textLen |-> 60,
         cleanLen |-> 60, likes |-> 10, comments |-> 5],
        \* the same LinkedIn post as 1 (same url) in a payload without an id
        [id |-> "",  url |-> "u1", textKey |-> "tA", textLen |-> 60,
         cleanLen |-> 60, likes |-> 2,  comments |-> 4],
        \* no id, no url; forty characters that are mostly a link (nine are
        \* left after scrubbing), hardly any engagement
        [id |-> "",  url |-> "",   textKey |-> "tD", textLen |-> 40,
         cleanLen |-> 9,  likes |-> 0,  comments |-> 1] >>

ApifyPost == DOMAIN Catalogue

MaxTextLen == 1500

\* extractPostText: the text field, trimmed, cut to 1500 characters (its length).
extractPostTextLen(p) == Min(Catalogue[p].textLen, MaxTextLen)

\* getMetric(post, 'likes' | 'comments')
getMetric(p, metric) ==
    IF metric = "likes" THEN Catalogue[p].likes ELSE Catalogue[p].comments

\* filterSensitiveData (the length of what it returns)
filterSensitiveDataLen(p) == Min(Catalogue[p].cleanLen, MaxTextLen)

\* const postId = p.id || p.url || extractPostText(p).substring(0, 50)
PostId(p) ==
    IF Catalogue[p].id # "" THEN Catalogue[p].id
    ELSE IF Catalogue[p].url # "" THEN Catalogue[p].url
    ELSE Catalogue[p].textKey

(***************************************************************************)
(* evaluatePostEngagement (the Relevance Scorer).                          *)
(***************************************************************************)
\* Array.prototype.slice(0, n)
Slice(s, n) == SubSeq(s, 1, Min(Max(n, 0), Len(s)))

\* What the chat completion call yields: it throws (or answers something
\* that is no JSON object with an array of indices), or it answers indices.
\* Indices are JavaScript array indices: 0 is the first post.
AiFail == [kind |-> "fail", idx |-> << >>]
AiIndices(ix) == [kind |-> "indices", idx |-> ix]

\* posts.filter(p => len >= 50 && likes + comments > 2)
MinScoredTextLen == 50
MinEngagement == 2
IsMeaningful(p) ==
    /\ extractPostTextLen(p) >= MinScoredTextLen
    /\ getMetric(p, "likes") + getMetric(p, "comments") > MinEngagement

MeaningfulPosts(posts) == SelectSeq(posts, IsMeaningful)

\* getMetric(a, 'comments') / (getMetric(a, 'likes') || 1), compared exactly:
\* RatioGreater(a, b) iff ratio(a) > ratio(b).
LikesOr1(p) == IF getMetric(p, "likes") = 0 THEN 1 ELSE getMetric(p, "likes")
RatioGreater(a, b) ==
    getMetric(a, "comments") * LikesOr1(b) > getMetric(b, "comments") * LikesOr1(a)

\* Array.prototype.sort((a, b) => ratioB - ratioA): stable, descending ratio.
RECURSIVE InsertByRatio(_, _)
InsertByRatio(x, sorted) ==
    IF sorted = << >> THEN <<x>>
    ELSE IF RatioGreater(x, Head(sorted)) THEN <<x>> \o sorted
    ELSE <<Head(sorted)>> \o InsertByRatio(x, Tail(sorted))

\* A sort that leaves the order as it is.
KeepOrder(s) == s

RECURSIVE SortByRatio(_)
SortByRatio(s) ==
    IF s = << >> THEN << >>
    ELSE InsertByRatio(s[Len(s)], SortByRatio(SubSeq(s, 1, Len(s) - 1)))

\* indices.map(i => meaningfulPosts[i]).filter(Boolean): an index outside the
\* array maps to undefined and is dropped; nothing else is.
RECURSIVE PickIndices(_, _)
PickIndices(ix, meaningful) ==
    IF ix = << >> THEN << >>
    ELSE (IF Head(ix) >= 0 /\ Head(ix) < Len(meaningful)
            THEN <<meaningful[Head(ix) + 1]>> ELSE << >>)
         \o PickIndices(Tail(ix), meaningful)

NoAiTop == 5           \* posts.slice(0, 5) when no model client is configured
RawFallback == 3       \* posts.slice(0, 3) when the filter leaves nothing
FallbackTop == 5       \* .slice(0, 5) after the ratio sort

evaluatePostEngagement(posts, openai, reply) ==
    IF Len(posts) = 0 THEN << >>
    ELSE IF ~openai THEN Slice(posts, NoAiTop)
    ELSE LET meaningfulPosts == MeaningfulPosts(posts) IN
         IF Len(meaningfulPosts) = 0 THEN Slice(posts, RawFallback)
         ELSE IF reply.kind = "indices" /\ Len(reply.idx) # 0
              THEN PickIndices(reply.idx, meaningfulPosts)
              ELSE Slice(SortByRatio(meaningfulPosts), FallbackTop)

\* The caller's array after the call.  filter() and slice() return new
\* arrays and sort() reorders meaningfulPosts, the array filter() made, so
\* the array passed in keeps its elements and their order.
InputAfterScoring(posts, openai, reply) == posts

(***************************************************************************)
(* executeWorkflowCore: inputs.                                            *)
(***************************************************************************)
userId == "U"          \* the user the run is for
otherUser == "V"

MAX_ROUNDS == 2
BUFFER_MULTIPLIER == 2
TargetCap == 10        \* Math.min(..., 10)

\* The `count` argument: a number, or something Number() turns into NaN.
NotANumber == [num |-> FALSE, val |-> 0]
Counts ==
    {NotANumber} \cup {[num |-> TRUE, val |-> v] : v \in (-1..MaxCount) \cup {TargetCap + 1}}

\* const targetCount = Math.min(Number(count) || 1, 10): NaN and 0 are falsy.
TargetCount(c) == Min(IF c.num /\ c.val # 0 THEN c.val ELSE 1, TargetCap)

\* Rows of the profiles table.  `kw` is niche_keywords.length.  Some schemas
\* key the row by user_id, some by id (= the auth user's id).
NoProfile == [user_id |-> "none", id |-> "none", kw |-> 0]
OwnRow == [user_id |-> userId, id |-> "p1", kw |-> 3]
OwnRowById == [user_id |-> "", id |-> userId, kw |-> 0]
OtherRow == [user_id |-> otherUser, id |-> "p2", kw |-> 2]

\* The contents of the profiles table tried.
ProfileTables == {{}, {OwnRow}, {OwnRowById}, {OtherRow}, {OwnRow, OtherRow}}

\* Rows of the creators table: validUrl iff linkedin_url is a non-blank string.
OwnCreator == [user_id |-> userId, validUrl |-> TRUE]
OwnCreatorNoUrl == [user_id |-> userId, validUrl |-> FALSE]
OtherCreator == [user_id |-> otherUser, validUrl |-> TRUE]

\* The contents of the creators table tried.
CreatorTables ==
    {{}, {OwnCreator}, {OwnCreatorNoUrl}, {OtherCreator}, {OwnCreator, OtherCreator}}

\* .maybeSingle(): the row when exactly one matches, null otherwise.
MaybeSingle(rows) ==
    IF Cardinality(rows) = 1 THEN CHOOSE r \in rows : TRUE ELSE NoProfile

NoResult == [status |-> "none", message |-> "", data |-> << >>, postsProcessed |-> 0]

\* The catch block's result; data and postsProcessed are absent from it
\* (callers read postsProcessed as `result.postsProcessed || 0`).
ErrorResult(msg) ==
    [status |-> "error", message |-> msg, data |-> << >>, postsProcessed |-> 0]

SuccessResult(saved) ==
    [status |-> "success", message |-> ToString(Len(saved)) \o " posts generated",
     data |-> saved, postsProcessed |-> Len(saved)]

MsgNoTable == "TABLE_PROFILES env var missing. Set it in Vercel Environment Variables."
MsgProfileError == "Profile fetch error"
MsgNoProfile == "No profile found for this user. Go to Settings and save your profile first."
MsgNoKeywords == "No keywords configured. Go to Settings and add niche keywords."
MsgCreatorsError == "Creators fetch error"
MsgNoCreators == "No creators found. Go to Settings and add creator LinkedIn URLs."
MsgNoCreatorUrls == "No valid creator URLs found. Check your creators have valid LinkedIn profile URLs."

(***************************************************************************)
(* executeWorkflowCore: the run.                                           *)
(***************************************************************************)
wfInputs == <<count, source, openaiOn, tableProfiles, profilesTable, creatorsTable>>
others == <<scVars, cronVars, auxVars, httpStatus>>

\* An exception that leaves the function: nothing is returned.
Rethrow(msg) ==
    /\ result' = result
    /\ pc' = "thrown"

\* throw new Error(msg) outside the generate tasks: the catch block returns it.
Throw(msg) ==
    /\ result' = ErrorResult(msg)
    /\ pc' = "done"

\* STEP 1: the three profile queries.  e1, e2, e3: the query returns an error
\* (data null); anyRow: the row `.limit(1)` happens to return.
ProfileLookup(table, e1, e2, e3, anyRow) ==
    LET attempt1 == IF e1 THEN NoProfile
                    ELSE MaybeSingle({r \in table : r.user_id = userId})
        attempt2 == IF e2 THEN NoProfile
                    ELSE MaybeSingle({r \in table : r.id = userId})
        attempt3 == IF e3 THEN NoProfile ELSE anyRow
    IN  IF attempt1 # NoProfile THEN attempt1
        ELSE IF attempt2 # NoProfile THEN attempt2
        ELSE attempt3

LoadProfile ==
    /\ pc = "start"
    /\ IF ~tableProfiles
         THEN Throw(MsgNoTable) /\ UNCHANGED profile
         ELSE \E e1 \in BOOLEAN, e2 \in BOOLEAN, e3 \in BOOLEAN,
                 anyRow \in (IF profilesTable = {} THEN {NoProfile} ELSE profilesTable) :
                LET found == ProfileLookup(profilesTable, e1, e2, e3, anyRow) IN
                IF found = NoProfile
                  THEN Throw(IF e3 THEN MsgProfileError ELSE MsgNoProfile)
                       /\ UNCHANGED profile
                  ELSE /\ profile' = found
                       /\ pc' = "build"
                       /\ UNCHANGED result
    /\ UNCHANGED <<wfInputs, others, nQueries, round, postsPerQuery, savedResults,
                   processedPostIds, newPosts, bestPosts, tasks, fetchLog,
                   attempts, aiGenerated, postsTable, stopReason>>

MaxQueries == 3        \* keywords.slice(0, 3), rawQueries....slice(0, 3)
MaxCreatorUrls == 5    \* .slice(0, 5)

\* STEP 2: searchQueries (keywords) or creatorUrls (creators).
BuildQueries ==
    /\ pc = "build"
    /\ IF source = "keywords"
         THEN IF profile.kw = 0
                THEN Throw(MsgNoKeywords) /\ UNCHANGED nQueries
                ELSE \* without a model client the keywords are used as they are;
                     \* with one, the expansions may fill the list up to three
                     /\ \E n \in Min(profile.kw, MaxQueries)..MaxQueries :
                           /\ (~openaiOn => n = Min(profile.kw, MaxQueries))
                           /\ nQueries' = n
                     /\ pc' = "round"
                     /\ UNCHANGED result
         ELSE \E queryError \in BOOLEAN :
                LET creators == {r \in creatorsTable : r.user_id = userId}
                    creatorUrls == Min(Cardinality({r \in creators : r.validUrl}),
                                       MaxCreatorUrls)
                IN  IF queryError THEN Throw(MsgCreatorsError) /\ UNCHANGED nQueries
                    ELSE IF creators = {} THEN Throw(MsgNoCreators) /\ UNCHANGED nQueries
                    ELSE IF creatorUrls = 0
                      THEN Throw(MsgNoCreatorUrls) /\ UNCHANGED nQueries
                    ELSE /\ nQueries' = creatorUrls
                         /\ pc' = "round"
                         /\ UNCHANGED result
    /\ UNCHANGED <<wfInputs, others, profile, round, postsPerQuery, savedResults,
                   processedPostIds, newPosts, bestPosts, tasks, fetchLog,
                   attempts, aiGenerated, postsTable, stopReason>>

\* const remaining = targetCount - savedResults.length
Remaining == TargetCount(count) - Len(savedResults)

\* A loop that goes on for as long as posts are missing.
LoopUntilTarget(r, remaining) == remaining > 0

\* for (let round = 0; round < MAX_ROUNDS; round++) { if (remaining <= 0) break; ...
LoopContinues(r, remaining) == r < MAX_ROUNDS /\ remaining > 0

MaxPerQuery == 5
MinPerQuery == 2

\* A fetch size that is the doubled remainder, whatever it is.
PostsPerQueryUncapped(remaining) == remaining * BUFFER_MULTIPLIER

\* Math.min(5, Math.max(2, remaining * BUFFER_MULTIPLIER))
PostsPerQuery(remaining) ==
    Min(MaxPerQuery, Max(MinPerQuery, remaining * BUFFER_MULTIPLIER))

\* roundPosts.filter(p => { if (processedPostIds.has(postId)) return false;
\*                          processedPostIds.add(postId); return true; })
RECURSIVE NewPosts(_, _)
NewPosts(posts, seen) ==
    IF posts = << >> THEN << >>
    ELSE IF PostId(Head(posts)) \in seen THEN NewPosts(Tail(posts), seen)
    ELSE <<Head(posts)>> \o NewPosts(Tail(posts), seen \cup {PostId(Head(posts))})

\* A loop that does not stop on an empty round.
NeverStops(posts) == FALSE

\* if (newPosts.length === 0) break
NoNewPosts(posts) == Len(posts) = 0

\* 1. FETCH and dedup.  searchLinkedInPosts / getCreatorPosts return what the
\* scraping service yields and [] when it fails or no token is configured.
FetchRound ==
    /\ pc = "round"
    /\ LoopContinues(round, Remaining)
    /\ postsPerQuery' = PostsPerQuery(Remaining)
    /\ \E roundPosts \in SeqsUpTo(ApifyPost, MaxFetch) :
          /\ fetchLog' = Append(fetchLog, roundPosts)
          /\ newPosts' = NewPosts(roundPosts, processedPostIds)
          /\ processedPostIds' =
                processedPostIds \cup {PostId(roundPosts[i]) : i \in 1..Len(roundPosts)}
    /\ IF NoNewPosts(newPosts')
         THEN pc' = "return" /\ stopReason' = "no new posts"
         ELSE pc' = "evaluate" /\ UNCHANGED stopReason
    /\ UNCHANGED <<wfInputs, others, profile, nQueries, round, savedResults,
                   bestPosts, tasks, result, attempts, aiGenerated, postsTable>>

\* The for loop ends: the round counter is used up, or the target is met.
LoopExit ==
    /\ pc = "round"
    /\ ~LoopContinues(round, Remaining)
    /\ stopReason' = IF round < MAX_ROUNDS THEN "target met" ELSE "rounds exhausted"
    /\ pc' = "return"
    /\ UNCHANGED <<wfInputs, others, profile, nQueries, round, postsPerQuery,
                   savedResults, processedPostIds, newPosts, bestPosts, tasks,
                   result, fetchLog, attempts, aiGenerated, postsTable>>

\* The scorer replies tried inside a run.
WfReplies ==
    {AiFail, AiIndices(<< >>), AiIndices(<<0>>), AiIndices(<<1, 0>>),
     AiIndices(<<0, 0>>), AiIndices(<<9>>)}

MinRewriteInput == 30  \* if (!text || text.length < 30) skip
\* toProcess.filter(post => extractPostText(post).length >= 30)
ValidPosts(toProcess) ==
    SelectSeq(toProcess, LAMBDA p : extractPostTextLen(p) >= MinRewriteInput)

\* A loop that an iteration's end leaves for good.
BreakLoop(r) == MAX_ROUNDS

\* `continue` after an empty scorer result, and the loop's round++ otherwise.
NextRound(r) == r + 1

\* Every candidate the scorer kept is processed.
ToProcessAll(best, remaining) == best

\* const toProcess = bestPosts.slice(0, remaining)
ToProcess(best, remaining) == Slice(best, remaining)

\* 2. EVALUATE, and the start of 3. GENERATE: one task per valid post.
Evaluate ==
    /\ pc = "evaluate"
    /\ \E reply \in WfReplies :
          bestPosts' = evaluatePostEngagement(newPosts, openaiOn, reply)
    /\ IF Len(bestPosts') = 0
         THEN \* continue: the round's locals go out of scope
              /\ round' = NextRound(round)
              /\ pc' = "round"
              /\ tasks' = << >>
              /\ newPosts' = << >>
         ELSE LET validPosts == ValidPosts(ToProcess(bestPosts', Remaining)) IN
              /\ tasks' = [i \in 1..Len(validPosts) |->
                             [post |-> validPosts[i], st |-> "pending",
                              src |-> "none", len |-> 0, reason |-> ""]]
              /\ pc' = "generate"
              /\ UNCHANGED <<round, newPosts>>
    /\ UNCHANGED <<wfInputs, others, profile, nQueries, postsPerQuery, savedResults,
                   processedPostIds, result, fetchLog, attempts,
                   aiGenerated, postsTable, stopReason>>

\* 3. GENERATE: what the rewrite call yields: it throws, or it answers a text
\* (an empty answer is treated as any other answer under 20 characters).
RewriteFail == [kind |-> "fail", len |-> 0]
MinRewriteLen == 20    \* if (!rewritten || rewritten.length < 20) throw
RewriteReplies ==
    {RewriteFail} \cup {[kind |-> "ok", len |-> n] : n \in {MinRewriteLen - 1, MinRewriteLen}}

\* extractPostStructure: the model's JSON, or '{}' without a client or on failure.
extractPostStructure(openai, ok) == IF openai /\ ok THEN "blueprint" ELSE "{}"

\* A rewriter that gives up with an empty text when the call fails.
regeneratePostEmptyOnFail(openai, reply, originalLen) ==
    IF ~openai \/ reply.kind = "fail"
      THEN [src |-> "none", len |-> 0]
      ELSE [src |-> "model", len |-> reply.len]

\* regeneratePost: the model's text (`content || ''`), or `original` (the
\* scrubbed text handed in) without a client or when the call fails.
regeneratePost(openai, reply, originalLen) ==
    IF ~openai \/ reply.kind = "fail"
      THEN [src |-> "original", len |-> originalLen]
      ELSE [src |-> "model", len |-> reply.len]

\* How one chain settles: a rewrite under 20 characters throws before the
\* insert; an insert error (or a missing TABLE_POSTS) throws after it.
MsgTooShort == "Rewrite too short"
MsgInsertError == "DB insert error"

\* A chain that accepts a rewrite of any length.
TaskOutcomeAnyLength(rewrittenLen, insertOk) ==
    IF ~insertOk THEN [st |-> "rejected", reason |-> MsgInsertError]
    ELSE [st |-> "fulfilled", reason |-> ""]

TaskOutcome(rewrittenLen, insertOk) ==
    IF rewrittenLen < MinRewriteLen THEN [st |-> "rejected", reason |-> MsgTooShort]
    ELSE IF ~insertOk THEN [st |-> "rejected", reason |-> MsgInsertError]
    ELSE [st |-> "fulfilled", reason |-> ""]

\* One chain runs to its end: extract, rewrite, insert.  The chains of a round
\* run concurrently and settle in any order.
RunTask(i) ==
    /\ pc = "generate"
    /\ tasks[i].st = "pending"
    /\ \E extractOk \in BOOLEAN, reply \in RewriteReplies, insertOk \in BOOLEAN :
          LET post == tasks[i].post
              structure == extractPostStructure(openaiOn, extractOk)
              rewritten == regeneratePost(openaiOn, reply, filterSensitiveDataLen(post))
              outcome == TaskOutcome(rewritten.len, insertOk)
          IN  /\ tasks' = [tasks EXCEPT ![i] =
                    [post |-> post, st |-> outcome.st, src |-> rewritten.src,
                     len |-> rewritten.len, reason |-> outcome.reason]]
              /\ postsTable' =
                    IF outcome.st = "fulfilled"
                      THEN postsTable (+) SetToBag({
                             [user_id |-> userId, post |-> post,
                              generated |-> rewritten.src, status |-> "idea",
                              type |-> IF source = "keywords" THEN "research" ELSE "parasite"]})
                      ELSE postsTable
              /\ attempts' = [attempts EXCEPT ![post] = @ + 1]
              /\ aiGenerated' = (aiGenerated \/ structure # "{}" \/ rewritten.src = "model")
    /\ UNCHANGED <<wfInputs, others, pc, profile, nQueries, round, postsPerQuery,
                   savedResults, processedPostIds, newPosts, bestPosts, result,
                   fetchLog, stopReason>>

\* Promise.all would reject as soon as one task does.
PromiseAll(results) ==
    [rejects |-> \E i \in DOMAIN results : results[i].st = "rejected",
     results |-> results]

\* await Promise.allSettled(...): resolves once every task has settled, and
\* never rejects, whatever the tasks did.
PromiseAllSettled(results) == [rejects |-> FALSE, results |-> results]

\* A collector that gives up at the first rejected result.
RECURSIVE CollectUntilRejected(_, _, _)
CollectUntilRejected(saved, results, target) ==
    IF results = << >> \/ Head(results).st = "rejected" THEN saved
    ELSE LET r == Head(results) IN
         CollectUntilRejected(
            IF Len(saved) < target
              THEN Append(saved, [post |-> r.post, generated |-> r.src, len |-> r.len])
              ELSE saved,
            Tail(results), target)

\* for (const result of results)
\*     if (result.status === 'fulfilled' && savedResults.length < targetCount) push
RECURSIVE CollectResults(_, _, _)
CollectResults(saved, results, target) ==
    IF results = << >> THEN saved
    ELSE LET r == Head(results) IN
         CollectResults(
            IF r.st = "fulfilled" /\ Len(saved) < target
              THEN Append(saved, [post |-> r.post, generated |-> r.src, len |-> r.len])
              ELSE saved,
            Tail(results), target)

MsgTaskError == "generate task rejected"

\* Collect successful results, then round++.
Collect ==
    /\ pc = "generate"
    /\ \A i \in DOMAIN tasks : tasks[i].st # "pending"
    /\ LET settled == PromiseAllSettled(tasks) IN
         IF settled.rejects
           THEN Throw(MsgTaskError) /\ UNCHANGED <<savedResults, round>>
           ELSE /\ savedResults' =
                      CollectResults(savedResults, settled.results, TargetCount(count))
                /\ round' = NextRound(round)
                /\ pc' = "round"
                /\ UNCHANGED result
    \* the round's locals go out of scope
    /\ newPosts' = << >>
    /\ bestPosts' = << >>
    /\ tasks' = << >>
    /\ UNCHANGED <<wfInputs, others, profile, nQueries, postsPerQuery,
                   processedPostIds, fetchLog,
                   attempts, aiGenerated, postsTable, stopReason>>

\* return { status: 'success', data: savedResults, message, postsProcessed }
Return ==
    /\ pc = "return"
    /\ result' = SuccessResult(savedResults)
    /\ pc' = "done"
    /\ UNCHANGED <<wfInputs, others, profile, nQueries, round, postsPerQuery,
                   savedResults, processedPostIds, newPosts, bestPosts, tasks,
                   fetchLog, attempts, aiGenerated, postsTable, stopReason>>

\* A wrapper that answers 200 whatever the result.
AlwaysOk(res) == 200

\* if (result.status === 'error') return res.status(400).json(...)
\* return res.json(result)
ResponseStatus(res) == IF res.status = "error" THEN 400 ELSE 200

\* executeWorkflowGenerate, once executeWorkflowCore has returned.
HttpRespond ==
    /\ pc = "done"
    /\ httpStatus = 0
    /\ httpStatus' = ResponseStatus(result)
    /\ UNCHANGED <<wfInputs, scVars, cronVars, auxVars, pc, profile, nQueries,
                   round, postsPerQuery, savedResults, processedPostIds, newPosts,
                   bestPosts, tasks, result, fetchLog, attempts, aiGenerated,
                   postsTable, stopReason>>

(***************************************************************************)
(* Initial values of the parts a specification does not run.               *)
(***************************************************************************)
NormalizerIdle ==
    /\ nmCall = "none"
    /\ nmPost = << >>
    /\ nmOut = << >>
    /\ nmPc = "off"

NoPatch == [route |-> "none", id |-> 0, status |-> "idea", http |-> 0]
PostsIdle ==
    /\ postRows = << >>
    /\ patch = NoPatch

NoScheduleRow ==
    [id |-> "none", user_id |-> "none", enabled |-> FALSE,
     time |-> [hh |-> "", mm |-> ""], source |-> "keywords", count |-> 0]
NoJobs == << >>
SchedulerIdle ==
    /\ scheduleRow = NoScheduleRow
    /\ activeJobs = NoJobs
    /\ scheduleHttp = 0

AuxIdle == NormalizerIdle /\ PostsIdle /\ SchedulerIdle

ScorerIdle ==
    /\ scPosts = << >>
    /\ scReply = AiFail
    /\ scOpenai = FALSE
    /\ scOut = << >>
    /\ scPc = "off"

CronIdle ==
    /\ clock = 0
    /\ schedules = << >>
    /\ executions = << >>
    /\ cron = << >>
    /\ workflowRuns = << >>
    /\ CRON_SECRET = ""

WorkflowIdle ==
    /\ count = NotANumber
    /\ source = "keywords"
    /\ openaiOn = FALSE
    /\ tableProfiles = FALSE
    /\ profilesTable = {}
    /\ creatorsTable = {}
    /\ pc = "off"
    /\ profile = NoProfile
    /\ nQueries = 0
    /\ round = 0
    /\ postsPerQuery = 0
    /\ savedResults = << >>
    /\ processedPostIds = {}
    /\ newPosts = << >>
    /\ bestPosts = << >>
    /\ tasks = << >>
    /\ result = NoResult
    /\ fetchLog = << >>
    /\ attempts = [p \in ApifyPost |-> 0]
    /\ aiGenerated = FALSE
    /\ postsTable = EmptyBag
    /\ stopReason = "running"
    /\ httpStatus = 0

(***************************************************************************)
(* One run of executeWorkflowCore(supabaseAdmin, userId, source, count).   *)
(* Spec tries every count and environment over a store that holds the      *)
(* user's own rows or nothing; SpecSetup tries every store content for one *)
(* count.  The creators table is read only when source = 'creators'.       *)
(***************************************************************************)
RunStart ==
    /\ pc = "start"
    /\ profile = NoProfile
    /\ nQueries = 0
    /\ round = 0
    /\ postsPerQuery = 0
    /\ savedResults = << >>
    /\ processedPostIds = {}
    /\ newPosts = << >>
    /\ bestPosts = << >>
    /\ tasks = << >>
    /\ result = NoResult
    /\ fetchLog = << >>
    /\ attempts = [p \in ApifyPost |-> 0]
    /\ aiGenerated = FALSE
    /\ postsTable = EmptyBag
    /\ stopReason = "running"
    /\ httpStatus = 0

Init ==
    /\ count \in Counts
    /\ source \in {"keywords", "creators"}
    /\ openaiOn \in BOOLEAN
    /\ tableProfiles \in BOOLEAN
    /\ profilesTable \in {{}, {OwnRow}}
    /\ creatorsTable \in (IF source = "creators" THEN {{}, {OwnCreator}} ELSE {{}})
    /\ RunStart
    /\ ScorerIdle
    /\ CronIdle
    /\ AuxIdle

InitSetup ==
    /\ count = [num |-> TRUE, val |-> 1]
    /\ source \in {"keywords", "creators"}
    /\ openaiOn \in BOOLEAN
    /\ tableProfiles \in BOOLEAN
    /\ profilesTable \in ProfileTables
    /\ creatorsTable \in (IF source = "creators" THEN CreatorTables ELSE {{}})
    /\ RunStart
    /\ ScorerIdle
    /\ CronIdle
    /\ AuxIdle

Next ==
    \/ LoadProfile
    \/ BuildQueries
    \/ FetchRound
    \/ LoopExit
    \/ Evaluate
    \/ \E i \in DOMAIN tasks : RunTask(i)
    \/ Collect
    \/ Return
    \/ HttpRespond

Spec == Init /\ [][Next]_vars

SpecSetup == InitSetup /\ [][Next]_vars

\* The function's awaits all settle: every call to the store, the scraper and
\* the model returns or fails, so a step that can be taken is taken.
\* Its runs: the keywords source for every count within the cap, the
\* creators source (the same loop over another fetch) for one post.
InitFair ==
    /\ Init
    /\ TargetCount(count) <= MaxCount
    /\ source = "creators" => count = [num |-> TRUE, val |-> 1]

SpecFair == InitFair /\ [][Next]_vars /\ WF_vars(Next)

(***************************************************************************)
(* SpecScorer: evaluatePostEngagement on every input list of at most       *)
(* MaxScorerIn posts and every model reply of at most FallbackTop + 1      *)
(* indices (in range, or 9: out of range).                                 *)
(***************************************************************************)
ReplyIndices == {0, 1, 9}
ScorerReplies ==
    {AiFail} \cup {AiIndices(ix) : ix \in SeqsUpTo(ReplyIndices, FallbackTop + 1)}

InitScorer ==
    /\ scPosts \in SeqsUpTo(ApifyPost, MaxScorerIn)
    /\ scReply \in ScorerReplies
    /\ scOpenai \in BOOLEAN
    /\ scOut = << >>
    /\ scPc = "call"
    /\ WorkflowIdle
    /\ CronIdle
    /\ AuxIdle

ScorerCall ==
    /\ scPc = "call"
    /\ scOut' = evaluatePostEngagement(scPosts, scOpenai, scReply)
    /\ scPosts' = InputAfterScoring(scPosts, scOpenai, scReply)
    /\ scPc' = "returned"
    /\ UNCHANGED <<scReply, scOpenai, wfVars, cronVars, auxVars>>

NextScorer == ScorerCall

SpecScorer == InitScorer /\ [][NextScorer]_vars

\* The scorer on longer inputs, with the replies that lead to its fallback
\* (a failed call, an empty selection) and one that does not.
MaxFallbackIn == 6
FallbackReplies == {AiFail, AiIndices(<< >>), AiIndices(<<0>>)}

InitScorerFallback ==
    /\ scPosts \in SeqsUpTo(ApifyPost, MaxFallbackIn)
    /\ scReply \in FallbackReplies
    /\ scOpenai \in BOOLEAN
    /\ scOut = << >>
    /\ scPc = "call"
    /\ WorkflowIdle
    /\ CronIdle
    /\ AuxIdle

SpecScorerFallback == InitScorerFallback /\ [][NextScorer]_vars

(***************************************************************************)
(* extractPostText and getMetric on a vendor payload (SpecNormalizer).     *)
(* A field holds undefined, null, a number, or a string; a string is known *)
(* by the blanks around it (pad) and the length of what trim() leaves (n). *)
(***************************************************************************)
Undefined == [kind |-> "undefined", pad |-> 0, n |-> 0]
Null == [kind |-> "null", pad |-> 0, n |-> 0]
Str(pad, n) == [kind |-> "string", pad |-> pad, n |-> n]
Num(n) == [kind |-> "number", pad |-> 0, n |-> n]

\* post.text ?? post.postText ?? post.content ?? post.body ?? post.description
TextFields == <<"text", "postText", "content", "body", "description">>
\* The count fields of each metric, in the order of the ?? chain.
MetricFields ==
    [likes |-> <<"likesCount", "likesNumber", "numLikes", "reactionCount",
                 "totalReactionCount">>,
     comments |-> <<"commentsCount", "commentsNumber", "numComments", "commentCount">>,
     shares |-> <<"sharesCount", "sharesNumber", "numShares", "shareCount">>]

\* The values tried: the empty string, blanks only, a padded text of sixty
\* characters, a text one character over the cut.
TextValues == {Undefined, Null, Str(0, 0), Str(2, 0), Str(1, 60), Str(0, MaxTextLen + 1)}
MetricValues == {Undefined, Null, Num(0), Num(7)}

\* a ?? b ?? ... ?? dflt: the first operand that is neither null nor
\* undefined, with the field it came from.
RECURSIVE Coalesce(_, _, _)
Coalesce(post, fields, dflt) ==
    IF fields = << >> THEN [field |-> "default", value |-> dflt]
    ELSE IF post[Head(fields)].kind \notin {"undefined", "null"}
         THEN [field |-> Head(fields), value |-> post[Head(fields)]]
         ELSE Coalesce(post, Tail(fields), dflt)

\* extractPostText: the chosen field, trimmed, cut to 1500 characters.
extractPostText(post) ==
    LET raw == Coalesce(post, TextFields, Str(0, 0)) IN
    [field |-> raw.field, n |-> Min(raw.value.n, MaxTextLen)]

\* getMetric: the chosen count, 0 when no field holds one.
getMetricField(post, metric) ==
    LET raw == Coalesce(post, MetricFields[metric], Num(0)) IN
    [field |-> raw.field, n |-> raw.value.n]

FieldsOf(call) ==
    IF call = "text" THEN TextFields ELSE MetricFields[call]
Range(seq) == {seq[i] : i \in DOMAIN seq}

InitNormalizer ==
    /\ nmCall \in {"text", "likes", "comments", "shares"}
    /\ nmPost \in [Range(FieldsOf(nmCall)) ->
                     IF nmCall = "text" THEN TextValues ELSE MetricValues]
    /\ nmOut = << >>
    /\ nmPc = "call"
    /\ WorkflowIdle
    /\ ScorerIdle
    /\ CronIdle
    /\ PostsIdle
    /\ SchedulerIdle

NormalizerCall ==
    /\ nmPc = "call"
    /\ nmOut' = IF nmCall = "text" THEN extractPostText(nmPost)
                ELSE getMetricField(nmPost, nmCall)
    /\ nmPc' = "returned"
    /\ UNCHANGED <<nmCall, nmPost, wfVars, scVars, cronVars, ptVars, jobVars>>

NextNormalizer == NormalizerCall

SpecNormalizer == InitNormalizer /\ [][NextNormalizer]_vars

(***************************************************************************)
(* The posts table: rows inserted by a run, and PATCH /posts/:id as the    *)
(* serverless API and as the Express server define it (SpecPosts).         *)
(***************************************************************************)
MaxPosts == 2

ContentStatus == {"idea", "drafted", "approved", "posted"}
\* The `status` of a request body.
PatchStatuses == ContentStatus \cup {"archived"}
PostIds == 1..(MaxPosts + 1)

ptOthers == <<wfVars, scVars, cronVars, nmVars, jobVars>>

\* executeWorkflowCore's insert: status 'idea'.
PostInsert ==
    /\ Len(postRows) < MaxPosts
    /\ postRows' = Append(postRows, [status |-> "idea"])
    /\ UNCHANGED <<patch, ptOthers>>

\* update({ status }).eq('id', id).select().single(): the row is written when
\* it exists; with no row, single() reports an error and the route says 500.
UpdateStatus(route, id, status) ==
    IF id \in DOMAIN postRows
    THEN /\ postRows' = [postRows EXCEPT ![id].status = status]
         /\ patch' = [route |-> route, id |-> id, status |-> status, http |-> 200]
    ELSE /\ patch' = [route |-> route, id |-> id, status |-> status, http |-> 500]
         /\ UNCHANGED postRows

\* router.patch('/posts/:id') of src/api/index.ts
PatchPostApi ==
    /\ \E id \in PostIds, status \in PatchStatuses : UpdateStatus("api", id, status)
    /\ UNCHANGED ptOthers

\* router.patch('/posts/:id') of src/server/routes.ts
PatchPostServer ==
    /\ \E id \in PostIds, status \in PatchStatuses :
          IF status \notin ContentStatus
          THEN /\ patch' = [route |-> "server", id |-> id, status |-> status,
                            http |-> 400]
               /\ UNCHANGED postRows
          ELSE UpdateStatus("server", id, status)
    /\ UNCHANGED ptOthers

InitPosts ==
    /\ postRows = << >>
    /\ patch = NoPatch
    /\ WorkflowIdle
    /\ ScorerIdle
    /\ CronIdle
    /\ NormalizerIdle
    /\ SchedulerIdle

NextPosts == PostInsert \/ PatchPostApi \/ PatchPostServer

SpecPosts == InitPosts /\ [][NextPosts]_vars

(***************************************************************************)
(* The in-process scheduler: POST /schedule and PUT /schedule/toggle of     *)
(* src/server/routes.ts over startScheduleJob / stopScheduleJob.  One user, *)
(* requests handled one after the other, the server started on an empty    *)
(* schedules table.                                                        *)
(***************************************************************************)
ScheduleId == "sch1"                 \* the id the store gives the user's row
MinScheduleCount == 1                \* Math.max(1, Math.min(count, 20))
MaxScheduleCount == 20

\* What a POST body can carry.  A time is "HH:MM"; ok is what
\* /^\d{2}:\d{2}$/.test(time) says of it.
BodyTimes ==
    {[ok |-> TRUE, hh |-> "09", mm |-> "00"], [ok |-> TRUE, hh |-> "18", mm |-> "30"],
     [ok |-> FALSE, hh |-> "9", mm |-> "00"]}
BodyEnabled == {"true", "false", "absent"}
BodySources == {"keywords", "creators", "feed"}
BodyCounts == {0, 5}

\* timeToCronExpression: "HH:MM" -> `${minutes} ${hours} * * *`
timeToCronExpression(time) ==
    [minute |-> time.mm, hour |-> time.hh, dayOfMonth |-> "*", month |-> "*",
     dayOfWeek |-> "*"]

\* const jobId = `${user_id}_${id}`
JobId(user, id) == <<user, id>>

\* saveScheduleConfig: updates the user's row when there is one, inserts it
\* otherwise; the row's id stays.
saveScheduleConfig(user, config) ==
    [id |-> ScheduleId, user_id |-> user, enabled |-> config.enabled,
     time |-> config.time, source |-> config.source, count |-> config.count]

\* startScheduleJob: nothing when the job is in the Map or the schedule is
\* disabled; otherwise a task on the schedule's time that runs with the
\* schedule's source and count.
startScheduleJob(jobs, row) ==
    IF JobId(row.user_id, row.id) \in DOMAIN jobs \/ ~row.enabled THEN jobs
    ELSE (JobId(row.user_id, row.id) :>
            [cron |-> timeToCronExpression(row.time), source |-> row.source,
             count |-> row.count])
         @@ jobs

\* stopScheduleJob: stops the task and deletes the entry.
stopScheduleJob(jobs, scheduleId, user) ==
    [j \in DOMAIN jobs \ {JobId(user, scheduleId)} |-> jobs[j]]

\* router.post('/schedule')
PostSchedule ==
    \E enabled \in BodyEnabled, time \in BodyTimes, src \in BodySources,
       cnt \in BodyCounts, saveOk \in BOOLEAN :
        IF ~time.ok \/ src \notin {"keywords", "creators"}
          THEN scheduleHttp' = 400 /\ UNCHANGED <<scheduleRow, activeJobs>>
        ELSE IF ~saveOk
          THEN scheduleHttp' = 500 /\ UNCHANGED <<scheduleRow, activeJobs>>
        ELSE LET scheduleConfig ==
                    saveScheduleConfig(userId,
                        [enabled |-> enabled # "false",
                         time |-> [hh |-> time.hh, mm |-> time.mm],
                         source |-> src,
                         count |-> Max(MinScheduleCount, Min(cnt, MaxScheduleCount))])
             IN  /\ scheduleRow' = scheduleConfig
                 /\ activeJobs' =
                       IF scheduleConfig.enabled
                         THEN startScheduleJob(activeJobs, scheduleConfig)
                         ELSE stopScheduleJob(activeJobs, scheduleConfig.id, userId)
                 /\ scheduleHttp' = 200

\* router.put('/schedule/toggle')
ToggleSchedule ==
    \E saveOk \in BOOLEAN :
        IF scheduleRow = NoScheduleRow
          THEN scheduleHttp' = 404 /\ UNCHANGED <<scheduleRow, activeJobs>>
        ELSE IF ~saveOk
          THEN scheduleHttp' = 500 /\ UNCHANGED <<scheduleRow, activeJobs>>
        ELSE LET updatedSchedule ==
                    saveScheduleConfig(userId,
                        [enabled |-> ~scheduleRow.enabled, time |-> scheduleRow.time,
                         source |-> scheduleRow.source, count |-> scheduleRow.count])
             IN  /\ scheduleRow' = updatedSchedule
                 /\ activeJobs' =
                       startScheduleJob(
                          stopScheduleJob(activeJobs, updatedSchedule.id, userId),
                          updatedSchedule)
                 /\ scheduleHttp' = 200

jobOthers == <<wfVars, scVars, cronVars, nmVars, ptVars>>

InitScheduler ==
    /\ SchedulerIdle
    /\ WorkflowIdle
    /\ ScorerIdle
    /\ CronIdle
    /\ NormalizerIdle
    /\ PostsIdle

NextScheduler ==
    \/ PostSchedule /\ UNCHANGED jobOthers
    \/ ToggleSchedule /\ UNCHANGED jobOthers

SpecScheduler == InitScheduler /\ [][NextScheduler]_vars

(***************************************************************************)
(* GET /api/cron: the hourly check of the enabled schedules (SpecCron).    *)
(* Time is counted in minutes since midnight UTC.                          *)
(***************************************************************************)
MaxInvocations == 2
MaxClock == 90
TickSteps == {30, 60}

OneHour == 60
HoursPerDay == 24

\* The offset, in hours, of a schedule's timezone; a missing timezone is
\* read as Europe/Madrid.
TzOffset(timezone) ==
    LET tz == IF timezone = "" THEN "Europe/Madrid" ELSE timezone IN
    IF tz = "Europe/Madrid" THEN 1 ELSE 0

\* toLocaleString('en-US', { timeZone }) knows the zone, or throws RangeError.
KnownTimeZones == {"Europe/Madrid", "UTC"}
ValidTimeZone(timezone) ==
    (IF timezone = "" THEN "Europe/Madrid" ELSE timezone) \in KnownTimeZones

\* getHours().toString().padStart(2, '0') of the time now in the timezone.
PadStart2(n) == IF n < 10 THEN "0" \o ToString(n) ELSE ToString(n)
CurrentHour(now, timezone) ==
    PadStart2(((now \div OneHour) + TzOffset(timezone)) % HoursPerDay)

\* `${hour}:00` of the schedule's time and of the current time.
TimeHour(hh) == hh \o ":00"

\* A handler that takes every enabled schedule as due.
AnyHourMatches(schedule, now) == TRUE

HourMatches(schedule, now) ==
    TimeHour(schedule.hh) = TimeHour(CurrentHour(now, schedule.timezone))

\* Rows of the schedules table; a time is kept as its HH and MM parts.
NoExecution == -1
MadridSchedule ==
    [id |-> "s1", user_id |-> "U", hh |-> "01", mm |-> "30", timezone |-> "",
     enabled |-> TRUE, last_execution |-> NoExecution]
UtcSchedule ==
    [id |-> "s2", user_id |-> "V", hh |-> "01", mm |-> "00", timezone |-> "UTC",
     enabled |-> TRUE, last_execution |-> NoExecution]
DisabledSchedule ==
    [id |-> "s3", user_id |-> "W", hh |-> "01", mm |-> "00", timezone |-> "",
     enabled |-> FALSE, last_execution |-> NoExecution]
\* POST /schedule stores whatever timezone string it is given.
BadZoneSchedule ==
    [id |-> "s4", user_id |-> "X", hh |-> "01", mm |-> "00", timezone |-> "Madrid",
     enabled |-> TRUE, last_execution |-> NoExecution]
ScheduleTables ==
    {<< >>, <<DisabledSchedule>>, <<MadridSchedule>>,
     <<MadridSchedule, UtcSchedule>>, <<DisabledSchedule, MadridSchedule>>,
     <<BadZoneSchedule, MadridSchedule>>}

\* What executeWorkflowCore hands back to the cron handler.
WorkflowResults ==
    {[status |-> "success", postsProcessed |-> 0],
     [status |-> "success", postsProcessed |-> 1],
     [status |-> "error", postsProcessed |-> 0]}

NoWorkflowResult == [status |-> "none", postsProcessed |-> 0]

\* { data } of a select: null when the store answers with an error.
NoRows == [null |-> FALSE, rows |-> << >>]
NullData == [null |-> TRUE, rows |-> << >>]

\* An invocation of the handler: where it stands, its `now`, the schedules
\* it still has to look at, and its locals.
NotStarted ==
    [pc |-> "idle", authHeader |-> "", now |-> 0, todo |-> << >>,
     recentExecs |-> NoRows, execution |-> 0, result |-> NoWorkflowResult,
     executed |-> 0, http |-> 0]
Invocations == 1..MaxInvocations

\* `continue`, and the end of an iteration: on to the next schedule.
NextSchedule(inv) == [inv EXCEPT !.pc = "loop", !.todo = Tail(inv.todo),
                                 !.recentExecs = NoRows, !.execution = 0,
                                 !.result = NoWorkflowResult]
Respond(inv, code) == [inv EXCEPT !.pc = "done", !.http = code]

\* What no step of the handler writes.
cronOthers == <<wfVars, scVars, auxVars, CRON_SECRET>>

\* The deployment's secret when one is set, and the Authorization headers a
\* request comes with (none, the right one, a wrong one).
Secret == "s3cret"
Bearer(secret) == "Bearer " \o secret
AuthHeaders == {"", Bearer(Secret), Bearer("guess")}

\* if (CRON_SECRET && authHeader !== `Bearer ${CRON_SECRET}`) return 401
Unauthorized(secret, authHeader) ==
    secret # "" /\ authHeader # Bearer(secret)

\* The bearer check, the read of the enabled schedules, and `now`.
\* Invocations are numbered in their order of arrival.
CronStart(i) ==
    /\ cron[i].pc = "idle"
    /\ \A j \in Invocations : j < i => cron[j].pc # "idle"
    /\ \E authHeader \in AuthHeaders, schedError \in BOOLEAN :
         LET enabled == SelectSeq(schedules, LAMBDA s : s.enabled)
             request == [cron[i] EXCEPT !.authHeader = authHeader]
         IN  cron' = [cron EXCEPT ![i] =
                        IF Unauthorized(CRON_SECRET, authHeader)
                        THEN Respond(request, 401)
                        ELSE IF schedError THEN Respond(request, 500)
                        ELSE IF Len(enabled) = 0 THEN Respond(request, 200)
                        ELSE [request EXCEPT !.pc = "loop", !.now = clock,
                                             !.todo = enabled]]
    /\ UNCHANGED <<clock, schedules, executions, workflowRuns, cronOthers>>

\* The schedule's hour is not the current hour in its timezone: skip it.
CronNotTimeYet(i) ==
    /\ cron[i].pc = "loop"
    /\ cron[i].todo # << >>
    /\ ValidTimeZone(Head(cron[i].todo).timezone)
    /\ ~HourMatches(Head(cron[i].todo), cron[i].now)
    /\ cron' = [cron EXCEPT ![i] = NextSchedule(@)]
    /\ UNCHANGED <<clock, schedules, executions, workflowRuns, cronOthers>>

\* The time conversion throws inside the loop, outside the per-schedule try:
\* the handler's outer catch answers 500 and the loop is left.
CronFatal(i) ==
    /\ cron[i].pc = "loop"
    /\ cron[i].todo # << >>
    /\ ~ValidTimeZone(Head(cron[i].todo).timezone)
    /\ cron' = [cron EXCEPT ![i] = Respond(@, 500)]
    /\ UNCHANGED <<clock, schedules, executions, workflowRuns, cronOthers>>

\* select('id').eq('schedule_id', id).gte('executed_at', oneHourAgo).limit(1)
RecentExecutions(scheduleId, now) ==
    LET oneHourAgo == now - OneHour
        rows == SelectSeq(executions,
                          LAMBDA e : e.schedule_id = scheduleId
                                     /\ e.executed_at >= oneHourAgo)
    IN  [null |-> FALSE, rows |-> Slice(rows, 1)]

\* The hour matches: ask the store for an execution of the last hour.  Only
\* `data` is taken from the answer.
CronDedupQueryWith(i, storeErrors) ==
    /\ cron[i].pc = "loop"
    /\ cron[i].todo # << >>
    /\ ValidTimeZone(Head(cron[i].todo).timezone)
    /\ HourMatches(Head(cron[i].todo), cron[i].now)
    /\ \E queryError \in storeErrors :
         LET recentExecs == IF queryError THEN NullData
                            ELSE RecentExecutions(Head(cron[i].todo).id,
                                                  cron[i].now)
         IN  cron' = [cron EXCEPT ![i] =
                        [@ EXCEPT !.pc = "dedup",
                                  !.recentExecs = recentExecs]]
    /\ UNCHANGED <<clock, schedules, executions, workflowRuns, cronOthers>>

CronDedupQuery(i) == CronDedupQueryWith(i, BOOLEAN)

AlreadyExecuted(recentExecs) ==
    ~recentExecs.null /\ Len(recentExecs.rows) > 0

CronAlreadyExecuted(i) ==
    /\ cron[i].pc = "dedup"
    /\ AlreadyExecuted(cron[i].recentExecs)
    /\ cron' = [cron EXCEPT ![i] = NextSchedule(@)]
    /\ UNCHANGED <<clock, schedules, executions, workflowRuns, cronOthers>>

\* Insert the pending execution record; an insert error skips the schedule.
CronInsertPending(i) ==
    /\ cron[i].pc = "dedup"
    /\ ~AlreadyExecuted(cron[i].recentExecs)
    /\ \E execInsertError \in BOOLEAN :
         LET schedule == Head(cron[i].todo)
             execution == [id |-> Len(executions) + 1,
                           schedule_id |-> schedule.id,
                           user_id |-> schedule.user_id,
                           executed_at |-> cron[i].now,
                           status |-> "pending",
                           posts_generated |-> 0]
         IN  IF execInsertError
             THEN /\ cron' = [cron EXCEPT ![i] = NextSchedule(@)]
                  /\ UNCHANGED executions
             ELSE /\ executions' = Append(executions, execution)
                  /\ cron' = [cron EXCEPT ![i] =
                                 [@ EXCEPT !.pc = "workflow",
                                           !.execution = execution.id]]
    /\ UNCHANGED <<clock, schedules, workflowRuns, cronOthers>>

\* await executeWorkflowCore(supabaseAdmin, user_id, source, count)
CronWorkflow(i) ==
    /\ cron[i].pc = "workflow"
    /\ \E workflowResult \in WorkflowResults :
         /\ cron' = [cron EXCEPT ![i] = [@ EXCEPT !.pc = "update",
                                                 !.result = workflowResult]]
         /\ workflowRuns' = Append(workflowRuns,
                                   [schedule_id |-> Head(cron[i].todo).id,
                                    invocation |-> i, now |-> cron[i].now,
                                    execution |-> cron[i].execution,
                                    result |-> workflowResult])
    /\ UNCHANGED <<clock, schedules, executions, cronOthers>>

\* Write the outcome to the execution record and the schedule's
\* last_execution, and note the schedule in executionResults.  Neither
\* update's answer is looked at: one the store refuses changes nothing.
CronUpdateWith(i, storeErrors) ==
    /\ cron[i].pc = "update"
    /\ \E execUpdateError \in storeErrors, schedUpdateError \in storeErrors :
         LET inv == cron[i]
             scheduleId == Head(inv.todo).id
         IN  /\ executions' =
                   IF execUpdateError THEN executions
                   ELSE [executions EXCEPT ![inv.execution] =
                           [@ EXCEPT !.status = IF inv.result.status = "success"
                                                THEN "success" ELSE "failed",
                                     !.posts_generated = inv.result.postsProcessed]]
             /\ schedules' =
                   IF schedUpdateError THEN schedules
                   ELSE [k \in DOMAIN schedules |->
                           IF schedules[k].id = scheduleId
                           THEN [schedules[k] EXCEPT !.last_execution = inv.now]
                           ELSE schedules[k]]
             /\ cron' = [cron EXCEPT ![i] =
                            [NextSchedule(@) EXCEPT !.executed = @ + 1]]
    /\ UNCHANGED <<clock, workflowRuns, cronOthers>>

CronUpdate(i) == CronUpdateWith(i, BOOLEAN)

\* Every schedule was looked at: answer with the summary.
CronRespond(i) ==
    /\ cron[i].pc = "loop"
    /\ cron[i].todo = << >>
    /\ cron' = [cron EXCEPT ![i] = Respond(@, 200)]
    /\ UNCHANGED <<clock, schedules, executions, workflowRuns, cronOthers>>

\* Time passes.
Tick ==
    /\ \E d \in TickSteps :
         /\ clock + d <= MaxClock
         /\ clock' = clock + d
    /\ UNCHANGED <<schedules, executions, cron, workflowRuns, cronOthers>>

\* The external trigger calls the endpoint again only after the previous
\* invocation has answered.
NoOtherActive(i) ==
    \A j \in Invocations \ {i} : cron[j].pc \in {"idle", "done"}

InitCron ==
    /\ WorkflowIdle
    /\ ScorerIdle
    /\ AuxIdle
    /\ clock \in {0, 30}
    /\ schedules \in ScheduleTables
    /\ executions = << >>
    /\ cron = [i \in Invocations |-> NotStarted]
    /\ workflowRuns = << >>
    /\ CRON_SECRET \in {"", Secret}

NextCron ==
    \/ \E i \in Invocations : NoOtherActive(i) /\ CronStart(i)
    \/ \E i \in Invocations : CronNotTimeYet(i)
    \/ \E i \in Invocations : CronFatal(i)
    \/ \E i \in Invocations : CronDedupQuery(i)
    \/ \E i \in Invocations : CronAlreadyExecuted(i)
    \/ \E i \in Invocations : CronInsertPending(i)
    \/ \E i \in Invocations : CronWorkflow(i)
    \/ \E i \in Invocations : CronUpdate(i)
    \/ \E i \in Invocations : CronRespond(i)
    \/ Tick

SpecCron == InitCron /\ [][NextCron]_vars

\* Two triggers whose invocations overlap, over a store that answers every
\* dedup query: any invocation may start while another is under way.
InitCronOverlap ==
    /\ WorkflowIdle
    /\ ScorerIdle
    /\ AuxIdle
    /\ clock = 0
    /\ schedules \in {<<MadridSchedule, UtcSchedule>>, <<BadZoneSchedule, MadridSchedule>>}
    /\ executions = << >>
    /\ cron = [i \in Invocations |-> NotStarted]
    /\ workflowRuns = << >>
    /\ CRON_SECRET = Secret

NextCronOverlap ==
    \/ \E i \in Invocations : CronStart(i)
    \/ \E i \in Invocations : CronNotTimeYet(i)
    \/ \E i \in Invocations : CronFatal(i)
    \/ \E i \in Invocations : CronDedupQueryWith(i, {FALSE})
    \/ \E i \in Invocations : CronAlreadyExecuted(i)
    \/ \E i \in Invocations : CronInsertPending(i)
    \/ \E i \in Invocations : CronWorkflow(i)
    \/ \E i \in Invocations : CronUpdateWith(i, {FALSE})
    \/ \E i \in Invocations : CronRespond(i)
    \/ Tick

SpecCronOverlap == InitCronOverlap /\ [][NextCronOverlap]_vars

(***************************************************************************)
(* Properties of a run of executeWorkflowCore (Spec, SpecSetup).           *)
(***************************************************************************)
Done == pc = "done"
Attempted == \E p \in ApifyPost : attempts[p] > 0

\* C1: for every requested count (0, negative and values above 10 included)
\* a run never returns more entries in `data` than the count requested (a
\* negative request asks for none).  A count that is not a number requests no
\* particular number and is left out.
C1_SavedAtMostCount ==
    (Done /\ count.num) => Len(result.data) <= Max(count.val, 0)

\* C2: the Source Adapter is asked for at most MAX_ROUNDS batches in a run,
\* whatever the earlier rounds returned.
C2_AtMostMaxRounds == Len(fetchLog) <= MAX_ROUNDS

\* C2, the case: a finished run that fetched twice although round 1 had new
\* posts and no generate chain ever started (its scorer result was empty).
C2_Witness ==
    /\ Done
    /\ Len(fetchLog) = MAX_ROUNDS
    /\ fetchLog[1] # << >>
    /\ ~Attempted

\* C3: when the Source Adapter returns the same single candidate in every
\* round, that candidate gets exactly one generation attempt, and a second
\* round finds no new post and stops the loop.
C3_OneAttemptForRepeatedCandidate ==
    \A p \in ApifyPost :
        (/\ Done
         /\ result.status = "success"
         /\ fetchLog # << >>
         /\ \A i \in DOMAIN fetchLog : fetchLog[i] = <<p>>)
        => /\ attempts[p] = 1
           /\ (Len(fetchLog) > 1 => stopReason = "no new posts")

\* The messages a run that stops during setup can carry.
SetupMessages ==
    {MsgNoProfile, MsgProfileError, MsgNoKeywords,
     MsgCreatorsError, MsgNoCreators, MsgNoCreatorUrls}

\* C7: when the profiles table holds no row of the user (by user_id or by
\* id), the run ends with status 'error' and a message of the setup phase,
\* and the Source Adapter is never called, whatever rows of other users the
\* table holds.
C7_NoProfileIsAnError ==
    (/\ Done
     /\ tableProfiles
     /\ \A r \in profilesTable : r.user_id # userId /\ r.id # userId)
    => /\ result.status = "error"
       /\ result.message \in SetupMessages
       /\ fetchLog = << >>

\* C8: status 'error' is returned only by runs that never fetched; a run
\* that issued its first fetch ends with status 'success'.
C8_ErrorOnlyBeforeFetch ==
    /\ result.status = "error" => fetchLog = << >>
    /\ (Done /\ fetchLog # << >>) => result.status = "success"

\* C8, the case: a finished run in which generate chains ran and every one
\* of them was rejected.
C8_Witness ==
    /\ Done
    /\ Attempted
    /\ postsTable = EmptyBag
    /\ result.status = "success"

\* C9: when every fetch of the run returned an empty list, the run returns
\* success with data = [], postsProcessed = 0 and '0 posts generated',
\* inserts nothing and fetches only once.
C9_EmptySourceIsSuccess ==
    (/\ Done
     /\ fetchLog # << >>
     /\ \A i \in DOMAIN fetchLog : fetchLog[i] = << >>)
    => /\ result.status = "success"
       /\ result.data = << >>
       /\ result.postsProcessed = 0
       /\ result.message = "0 posts generated"
       /\ postsTable = EmptyBag
       /\ Len(fetchLog) = 1
       /\ stopReason = "no new posts"

\* C9, the case: a finished run whose only fetch came back empty.
C9_Witness == Done /\ fetchLog = << << >> >>

\* C10 as claimed: when every structure extraction and every rewrite call of
\* the run failed, the run returns success with nothing saved, nothing
\* persisted, and the loop used up its rounds.
C10_BothFailNothingSaved ==
    (Done /\ Attempted /\ openaiOn /\ ~aiGenerated)
    => /\ result.status = "success"
       /\ result.data = << >>
       /\ postsTable = EmptyBag
       /\ stopReason = "rounds exhausted"

\* C10 amended: when no structure extraction and no rewrite of the run
\* succeeded, every chain carries the scrubbed original as its rewrite and is
\* rejected only when that text is under 20 characters or the insert fails;
\* the run returns success, and what it saved are exactly the rows it
\* persisted, each holding the scrubbed original of at least 20 characters.
C10_BothFailSavesOriginals ==
    /\ (pc = "generate" /\ ~aiGenerated) =>
            \A i \in DOMAIN tasks :
                tasks[i].st # "pending" =>
                    /\ tasks[i].src = "original"
                    /\ tasks[i].len = filterSensitiveDataLen(tasks[i].post)
                    /\ tasks[i].st = "fulfilled" <=>
                            (tasks[i].len >= MinRewriteLen /\ tasks[i].reason # MsgInsertError)
    /\ (Done /\ Attempted /\ ~aiGenerated) =>
            /\ result.status = "success"
            /\ stopReason \in {"target met", "rounds exhausted", "no new posts"}
            /\ Len(result.data) = BagCardinality(postsTable)
            /\ \A k \in DOMAIN result.data :
                    /\ result.data[k].generated = "original"
                    /\ result.data[k].len = filterSensitiveDataLen(result.data[k].post)
                    /\ result.data[k].len >= MinRewriteLen
            /\ \A r \in BagToSet(postsTable) : r.generated = "original"

\* C10, the case: both model steps failed for every candidate, and the run
\* saved a post and stopped with its target met.
C10_Witness ==
    /\ Done
    /\ Attempted
    /\ ~aiGenerated
    /\ openaiOn
    /\ Len(result.data) >= 1
    /\ stopReason = "target met"

\* C11: once a round has saved as many posts as the target (round 1 in
\* particular, also when more candidates qualified than were asked for),
\* exactly target posts are persisted and no further fetch is issued.
C11_TargetMetStopsTheRun ==
    /\ []((/\ pc \in {"round", "return", "done"}
           /\ Len(savedResults) = TargetCount(count))
          => BagCardinality(postsTable) = TargetCount(count))
    /\ [][Len(savedResults) >= TargetCount(count) => fetchLog' = fetchLog]_vars

\* C11, the case: target 1, round 1 fetched two new candidates, one post was
\* saved and the run ended after its only fetch.
C11_Witness ==
    /\ Done
    /\ TargetCount(count) = 1
    /\ Len(fetchLog) = 1
    /\ Len(NewPosts(fetchLog[1], {})) = 2
    /\ Len(result.data) = 1
    /\ BagCardinality(postsTable) = 1
    /\ stopReason = "target met"

\* The user has no creator row with a usable LinkedIn URL.
NoCreatorUrl == \A r \in creatorsTable : r.user_id = userId => ~r.validUrl

\* C17: with source 'keywords' and a profile without niche keywords, or with
\* source 'creators' and no creator row (or none with a valid URL) of the
\* user, the run returns status 'error' with the message that says what to
\* configure, the Source Adapter is never called, no post is inserted, and
\* the HTTP wrapper answers 4xx.
C17_ConfigErrorStopsTheRun ==
    (/\ Done
     /\ profile # NoProfile
     /\ \/ source = "keywords" /\ profile.kw = 0
        \/ source = "creators" /\ NoCreatorUrl)
    => /\ result.status = "error"
       /\ result.message \in {MsgNoKeywords, MsgNoCreators, MsgNoCreatorUrls,
                              MsgCreatorsError}
       /\ (result.message = MsgNoKeywords) = (source = "keywords")
       /\ fetchLog = << >>
       /\ postsTable = EmptyBag
       /\ httpStatus \in {0} \cup 400..499

\* C17, the case: a creators run for a user whose only creator row has no
\* valid URL was answered 400.
C17_Witness ==
    /\ Done
    /\ source = "creators"
    /\ profile = OwnRow
    /\ creatorsTable = {OwnCreatorNoUrl}
    /\ result.message = MsgNoCreatorUrls
    /\ httpStatus = 400

(***************************************************************************)
(* Properties of evaluatePostEngagement (SpecScorer).                      *)
(***************************************************************************)
\* C5: the scorer never returns more than 5 candidates.
C5_AtMostFive == scPc = "returned" => Len(scOut) <= FallbackTop

\* C6: the scorer never returns an empty list for a non-empty input.
C6_NeverEmptyForInput ==
    (scPc = "returned" /\ Len(scPosts) > 0) => Len(scOut) > 0

(***************************************************************************)
(* Properties of the hourly check (SpecCron).                              *)
(***************************************************************************)
\* Two entries of a log that belong to one schedule and lie less than an
\* hour apart.
SameHourPair(log, a, b) ==
    /\ a < b
    /\ log[a].schedule_id = log[b].schedule_id
    /\ log[b].stamp - log[a].stamp < OneHour
    /\ log[a].stamp - log[b].stamp < OneHour

ExecutionLog == [k \in DOMAIN executions |->
                   [schedule_id |-> executions[k].schedule_id,
                    stamp |-> executions[k].executed_at]]
RunLog == [k \in DOMAIN workflowRuns |->
             [schedule_id |-> workflowRuns[k].schedule_id,
              stamp |-> workflowRuns[k].now]]

\* C4: when invocations of /api/cron follow one another, no schedule has two
\* execution records, nor two Orchestrator runs, less than an hour apart: an
\* invocation that comes after an earlier one created its record, and within
\* the same hour, creates no record and runs nothing.
C4_OncePerRollingHour ==
    /\ \A a, b \in DOMAIN executions : ~SameHourPair(ExecutionLog, a, b)
    /\ \A a, b \in DOMAIN workflowRuns : ~SameHourPair(RunLog, a, b)

\* The enabled schedules an invocation read and has not looked at.
Unchecked(i) == Tail(cron[i].todo)

\* C12: a failure while one enabled schedule is handled (its timezone, the
\* dedup query, the record insert, the workflow) never keeps the invocation
\* from looking at the enabled schedules that come after it.
C12_FailureNeverSkipsTheRest ==
    \A i \in Invocations :
        (cron[i].pc = "done" /\ cron[i].todo # << >>) => Unchecked(i) = << >>

\* The hour of day a schedule's HH names, and the hour of day it is at `now`
\* on the wall clock of the schedule's timezone.
HourValue(hh) == CHOOSE n \in 0..(HoursPerDay - 1) : PadStart2(n) = hh
WallClockHour(now, timezone) ==
    ((now + OneHour * TzOffset(timezone)) % (HoursPerDay * OneHour)) \div OneHour
EnabledAndDue(scheduleId, now) ==
    \E k \in DOMAIN schedules :
        /\ schedules[k].id = scheduleId
        /\ schedules[k].enabled
        /\ HourValue(schedules[k].hh) = WallClockHour(now, schedules[k].timezone)

\* C13: an execution record is created, and the Orchestrator is run, only for
\* a schedule that is enabled and whose hour is the current hour in its
\* timezone; a disabled schedule and a schedule of another hour get neither.
C13_OnlyEnabledAndDue ==
    /\ \A k \in DOMAIN executions :
          EnabledAndDue(executions[k].schedule_id, executions[k].executed_at)
    /\ \A k \in DOMAIN workflowRuns :
          EnabledAndDue(workflowRuns[k].schedule_id, workflowRuns[k].now)

\* C13, the case: an invocation went through a due schedule and a schedule of
\* another hour, and ran the Orchestrator for the first only.
C13_Witness ==
    \E i \in Invocations :
        /\ cron[i].pc = "done"
        /\ cron[i].http = 200
        /\ Len(schedules) = 2
        /\ schedules[1].id = MadridSchedule.id
        /\ schedules[2] = UtcSchedule
        /\ cron[i].todo = << >>
        /\ cron[i].executed = 1
        /\ Len(workflowRuns) = 1
        /\ workflowRuns[1].schedule_id = MadridSchedule.id

\* C14: a request whose Authorization header is not 'Bearer <CRON_SECRET>'
\* is answered 401 and reads no schedule, creates no record and runs
\* nothing, also when no CRON_SECRET is configured.
C14_BearerProtected ==
    \A i \in Invocations :
        (/\ cron[i].pc # "idle"
         /\ (CRON_SECRET = "" \/ cron[i].authHeader # Bearer(CRON_SECRET)))
        => /\ cron[i].pc = "done"
           /\ cron[i].http = 401
           /\ cron[i].todo = << >>
           /\ \A k \in DOMAIN workflowRuns : workflowRuns[k].invocation # i

(***************************************************************************)
(* Properties of extractPostText and getMetric (SpecNormalizer).           *)
(***************************************************************************)
\* The first field of the list that holds something: a string that is not
\* blank, or a number.
RECURSIVE FirstPopulated(_, _)
FirstPopulated(post, fields) ==
    IF fields = << >> THEN [field |-> "default", n |-> 0]
    ELSE LET v == post[Head(fields)] IN
         IF (v.kind = "string" /\ v.n > 0) \/ v.kind = "number"
         THEN [field |-> Head(fields), n |-> v.n]
         ELSE FirstPopulated(post, Tail(fields))

\* C15: extractPostText returns the first non-empty text field in priority
\* order, trimmed and cut to 1500 characters, and getMetric the first
\* populated count in priority order (a count of 0 is a count); with no such
\* field they return the empty string and zero.
C15_FirstNonEmptyField ==
    nmPc = "returned" =>
        LET first == FirstPopulated(nmPost, FieldsOf(nmCall)) IN
        /\ nmOut.n = Min(first.n, MaxTextLen)
        /\ nmOut.n > 0 => nmOut.field = first.field

(***************************************************************************)
(* Properties of the posts table (SpecPosts).                              *)
(***************************************************************************)
\* C16: after any inserts and PATCH requests, every post's status is one of
\* idea, drafted, approved, posted, and a PATCH carrying another status was
\* rejected.
C16_StatusIsOneOfFour ==
    /\ \A id \in DOMAIN postRows : postRows[id].status \in ContentStatus
    /\ patch.status \notin ContentStatus => patch.http \in {400, 500}

\* C18: when two invocations overlap, in whatever order their dedup queries
\* and inserts come, a due schedule gets at most one execution record and at
\* most one Orchestrator run in the hour.
C18_OncePerHourWhenOverlapping ==
    /\ \A a, b \in DOMAIN executions :
          ~(a < b /\ executions[a].schedule_id = executions[b].schedule_id
                  /\ executions[b].executed_at - executions[a].executed_at < OneHour)
    /\ \A a, b \in DOMAIN workflowRuns :
          ~(a < b /\ workflowRuns[a].schedule_id = workflowRuns[b].schedule_id
                  /\ workflowRuns[b].now - workflowRuns[a].now < OneHour)

\* The schedule row with the given id.
ScheduleRow(scheduleId) ==
    schedules[CHOOSE k \in DOMAIN schedules : schedules[k].id = scheduleId]

\* C19: an execution record is 'pending' from its insert, before the
\* Orchestrator is called, until the handling of its schedule ends; from then
\* on it is 'failed' when the run's result was an error and 'success'
\* otherwise, its posts_generated is the run's postsProcessed, and the
\* schedule's last_execution has been set to the invocation time.
C19_RecordLifecycle ==
    \A k \in DOMAIN executions :
        LET e == executions[k] IN
        IF \E i \in Invocations : cron[i].execution = k
        THEN e.status = "pending"
        ELSE \E r \in DOMAIN workflowRuns :
                /\ workflowRuns[r].execution = k
                /\ e.status = (IF workflowRuns[r].result.status = "error"
                               THEN "failed" ELSE "success")
                /\ e.posts_generated = workflowRuns[r].result.postsProcessed
                /\ ScheduleRow(e.schedule_id).last_execution >= e.executed_at

\* The round's chains that settled with the given status (the scorer may hand
\* the same post to two chains), and their posts.
Settled(st) == {j \in DOMAIN tasks : tasks[j].st = st}
SettledPosts(st) == {tasks[j].post : j \in Settled(st)}
SavedPosts(saved) == {saved[k].post : k \in DOMAIN saved}

\* C20: in the parallel generate step a rejected chain stays a matter of its
\* own task.  While a chain of the round is pending no step ends the round or
\* touches a settled sibling; when the round is collected every fulfilled
\* chain is appended to savedResults, the run goes on to the next round
\* without an error result; and a run in which chains ran ends with status
\* 'success' and with as many saved results as rows inserted.
C20_RejectionIsIsolated ==
    /\ [][(pc = "generate" /\ \E i \in DOMAIN tasks : tasks[i].st = "pending")
            => /\ pc' = "generate"
               /\ DOMAIN tasks' = DOMAIN tasks
               /\ \A i \in DOMAIN tasks :
                     tasks[i].st # "pending" => tasks'[i] = tasks[i]]_vars
    /\ [][(pc = "generate" /\ pc' # "generate")
            => /\ pc' = "round"
               /\ round' = round + 1
               /\ result' = NoResult
               /\ SavedPosts(savedResults') = SavedPosts(savedResults) \cup SettledPosts("fulfilled")
               /\ Len(savedResults') = Len(savedResults) + Cardinality(Settled("fulfilled"))]_vars
    /\ []((Done /\ Attempted)
            => /\ result.status = "success"
               /\ Len(savedResults) = BagCardinality(postsTable))

\* C20, the case: the first round has been collected, it ran two chains of
\* which one was rejected and one was saved, and the run goes on.
C20_Witness ==
    /\ pc = "round"
    /\ Len(fetchLog) = 1
    /\ Cardinality({p \in DOMAIN attempts : attempts[p] > 0}) = 2
    /\ Len(savedResults) = 1
    /\ BagCardinality(postsTable) = 1
    /\ result = NoResult

\* The row a fulfilled chain inserted for its post.
InsertedRow(post, generated) ==
    [user_id |-> userId, post |-> post, generated |-> generated, status |-> "idea",
     type |-> IF source = "keywords" THEN "research" ELSE "parasite"]

\* C21: a rewrite that fails, or that has no model client, yields the
\* scrubbed original text unchanged.  A chain that got the original back and
\* whose text has at least 20 characters is rejected only by the store
\* refusing the insert; otherwise it inserts a row whose generated content is
\* that original, and the round's collection puts it in savedResults.
C21_RewriterFallbackIsPersisted ==
    /\ [](\A i \in DOMAIN tasks :
            tasks[i].st # "pending" =>
               /\ tasks[i].src \in {"original", "model"}
               /\ ~openaiOn => tasks[i].src = "original"
               /\ tasks[i].src = "original" =>
                     /\ tasks[i].len = filterSensitiveDataLen(tasks[i].post)
                     /\ tasks[i].len >= MinRewriteLen =>
                           \/ tasks[i].st = "fulfilled"
                           \/ tasks[i].reason = MsgInsertError
                     /\ tasks[i].st = "fulfilled" =>
                           /\ tasks[i].len >= MinRewriteLen
                           /\ BagIn(InsertedRow(tasks[i].post, "original"), postsTable))
    /\ [][(pc = "generate" /\ pc' # "generate") =>
             \A i \in DOMAIN tasks :
                (tasks[i].st = "fulfilled" /\ tasks[i].src = "original") =>
                   \E k \in DOMAIN savedResults' :
                      savedResults'[k] = [post |-> tasks[i].post, generated |-> "original",
                                          len |-> filterSensitiveDataLen(tasks[i].post)]]_vars

\* C21, the case: a collected round saved a post whose generated content is
\* the scrubbed original, and the row for it is in the posts table.
C21_Witness ==
    /\ pc = "round"
    /\ \E k \in DOMAIN savedResults :
          /\ savedResults[k].generated = "original"
          /\ savedResults[k].len >= MinRewriteLen
          /\ BagIn(InsertedRow(savedResults[k].post, "original"), postsTable)

\* C22: a chain whose rewrite is empty or shorter than 20 characters is
\* rejected as too short, and that is all that happens: the step inserts no
\* row, saves nothing, leaves every sibling chain as it was and does not end
\* the round or the run; no saved result and no fulfilled chain ever has a
\* text under 20 characters.
C22_ShortRewriteFailsAlone ==
    /\ [][\A i \in DOMAIN tasks :
             (/\ pc = "generate"
              /\ tasks[i].st = "pending"
              /\ tasks'[i].st # "pending"
              /\ tasks'[i].len < MinRewriteLen)
             => /\ tasks'[i].st = "rejected"
                /\ tasks'[i].reason = MsgTooShort
                /\ postsTable' = postsTable
                /\ savedResults' = savedResults
                /\ \A j \in DOMAIN tasks \ {i} : tasks'[j] = tasks[j]
                /\ pc' = "generate"
                /\ result' = result]_vars
    /\ [](\A i \in DOMAIN tasks :
            tasks[i].st = "fulfilled" => tasks[i].len >= MinRewriteLen)
    /\ [](\A k \in DOMAIN savedResults : savedResults[k].len >= MinRewriteLen)

\* C22, the case: every chain of a round has settled, one was rejected for a
\* rewrite that is too short, a sibling was fulfilled and has its row.
C22_Witness ==
    /\ pc = "generate"
    /\ \A i \in DOMAIN tasks : tasks[i].st # "pending"
    /\ \E i, j \in DOMAIN tasks :
          /\ tasks[i].st = "rejected"
          /\ tasks[i].reason = MsgTooShort
          /\ tasks[i].len < MinRewriteLen
          /\ tasks[j].st = "fulfilled"
          /\ tasks[j].post # tasks[i].post
          /\ BagCardinality(postsTable) = Cardinality(Settled("fulfilled"))

C24_EmptyScoreSkipsEmptyFetchStops ==
    /\ [][(pc = "evaluate" /\ Len(bestPosts') = 0)
            => /\ pc' = "round"
               /\ round' = round + 1
               /\ tasks' = << >>
               /\ attempts' = attempts
               /\ postsTable' = postsTable
               /\ savedResults' = savedResults
               /\ result' = NoResult
               /\ stopReason' = "running"]_vars
    /\ [][(pc = "round" /\ round < MAX_ROUNDS /\ Remaining > 0)
            => Len(fetchLog') = Len(fetchLog) + 1]_vars
    /\ [][(fetchLog' # fetchLog /\ Len(newPosts') = 0)
            => pc' = "return" /\ stopReason' = "no new posts"]_vars
    /\ [][stopReason = "no new posts"
            => fetchLog' = fetchLog /\ attempts' = attempts /\ pc' \in {"return", "done"}]_vars

\* C24, the case: the first round's new posts got no candidate from the
\* scorer, so no chain has run, and the second round has fetched new posts.
C24_Witness ==
    /\ pc = "evaluate"
    /\ round = 1
    /\ Len(fetchLog) = 2
    /\ fetchLog[1] # << >>
    /\ ~Attempted
    /\ postsTable = EmptyBag

\* C24, the other case: the second round's fetch brought nothing new after a
\* first round that generated, and the loop has stopped short of the target.
C24_WitnessStop ==
    /\ stopReason = "no new posts"
    /\ Len(fetchLog) = 2
    /\ Attempted
    /\ Len(savedResults) < TargetCount(count)

(***************************************************************************)
(* Properties of the scorer's fallback (SpecScorerFallback).               *)
(***************************************************************************)
\* How often a post occurs in a list.
Occurrences(p, list) == Cardinality({k \in DOMAIN list : list[k] = p})

\* The model was asked and gave nothing to go by: the call failed, or the
\* reply selects no index.
FallbackTaken ==
    /\ scOpenai
    /\ Len(MeaningfulPosts(scPosts)) > 0
    /\ scReply.kind = "fail" \/ Len(scReply.idx) = 0

C26_EveryRunReturns ==
    /\ <>(Done /\ result # NoResult /\ result.status \in {"success", "error"})
    /\ [](pc \in {"return", "done"} =>
            /\ result.status = "error" <=> stopReason = "running"
            /\ result.status # "error" =>
                  stopReason \in {"target met", "rounds exhausted", "no new posts"}
            /\ stopReason = "target met" => (round < MAX_ROUNDS /\ Remaining <= 0)
            /\ stopReason = "rounds exhausted" => round = MAX_ROUNDS
            /\ stopReason = "no new posts" =>
                  /\ round < MAX_ROUNDS
                  /\ Remaining > 0
                  /\ fetchLog # << >>)

\* C26, the cases: a run returned after using up its rounds short of the
\* target.
C26_Witness ==
    /\ Done
    /\ result.status = "success"
    /\ stopReason = "rounds exhausted"
    /\ Len(fetchLog) = MAX_ROUNDS
    /\ Len(savedResults) < TargetCount(count)

\* C27: a run that returns success answers for exactly what it persisted:
\* the rows it inserted are as many as the entries of `data` and as
\* postsProcessed says, one row per entry, and never more than the target
\* (a negative target asks for none).
C27_ResponseCountsWhatWasPersisted ==
    (Done /\ result.status = "success") =>
        /\ BagCardinality(postsTable) = Len(result.data)
        /\ result.postsProcessed = Len(result.data)
        /\ \A k \in DOMAIN result.data :
              BagIn(InsertedRow(result.data[k].post, result.data[k].generated), postsTable)
        /\ BagCardinality(postsTable) <= Max(TargetCount(count), 0)

\* C27, the case: a run for two posts that saved one post in each of its two
\* rounds, the first of which fetched two new posts.
C27_Witness ==
    /\ Done
    /\ result.status = "success"
    /\ Len(fetchLog) = 2
    /\ Len(NewPosts(fetchLog[1], {})) = 2
    /\ BagCardinality(postsTable) = 2
    /\ Len(result.data) = 2
    /\ result.postsProcessed = 2

\* The rows the run inserted for a post.
RowsOf(p) == {r \in BagToSet(postsTable) : r.post = p}

\* C28: within one run no candidate goes through the generate chain more
\* than once, whatever the scorer returned, so the run never inserts two
\* rows made from the same source post.
C28_NoCandidateGeneratedTwice ==
    \A p \in ApifyPost :
        /\ attempts[p] <= 1
        /\ Cardinality(RowsOf(p)) <= 1
        /\ \A r \in RowsOf(p) : CopiesIn(r, postsTable) <= 1

(***************************************************************************)
(* Tenant isolation of a run (SpecSetup).                                  *)
(***************************************************************************)
\* The rows of a table that are the user's own.
OwnProfiles(table) == {r \in table : r.user_id = userId \/ r.id = userId}
OwnCreators(table) == {r \in table : r.user_id = userId}

\* C29: a run for user U depends on U's rows alone.  The profile it works
\* with (the source of its queries and voice instructions) is a row of U, the
\* creator URLs it counts are those of U's creator rows, a run that gets as
\* far as success has a profile row of U to show for it (with the other
\* users' rows taken away it would return the same status), and every row it
\* inserts carries user_id = U.
C29_RunDependsOnOwnRowsOnly ==
    /\ profile \in {NoProfile} \cup OwnProfiles(profilesTable)
    /\ (source = "creators" /\ pc \in {"round", "evaluate", "generate", "return"})
          => nQueries = Min(Cardinality({r \in OwnCreators(creatorsTable) : r.validUrl}),
                            MaxCreatorUrls)
    /\ (Done /\ result.status = "success") => OwnProfiles(profilesTable) # {}
    /\ \A r \in BagToSet(postsTable) : r.user_id = userId

(***************************************************************************)
(* Properties of the in-process scheduler (SpecScheduler).                 *)
(***************************************************************************)
\* C30: after any sequence of POST /schedule and PUT /schedule/toggle
\* requests the activeJobs Map holds at most one job for the user's
\* schedule, holds one exactly when the stored schedule is enabled, and that
\* job is on the time the schedule now stores.
C30_JobFollowsTheStoredSchedule ==
    /\ Cardinality(DOMAIN activeJobs) <= 1
    /\ (DOMAIN activeJobs # {}) <=> (scheduleRow # NoScheduleRow /\ scheduleRow.enabled)
    /\ \A j \in DOMAIN activeJobs :
          /\ j = JobId(scheduleRow.user_id, scheduleRow.id)
          /\ activeJobs[j].cron.hour = scheduleRow.time.hh
          /\ activeJobs[j].cron.minute = scheduleRow.time.mm

\* The part of C30 that does not depend on what a running job was started
\* with: one job at most, and one exactly when the schedule is enabled.
JobIffEnabled ==
    /\ Cardinality(DOMAIN activeJobs) <= 1
    /\ (DOMAIN activeJobs # {}) <=> (scheduleRow # NoScheduleRow /\ scheduleRow.enabled)

====
